---- MODULE Spec2Model ----
\* Model of the KVM machine driver (package kvm): one Driver instance talking to
\* a libvirt hypervisor.  The driver's fields, the hypervisor's records of the
\* domain and of the private network, and the persistent directory on disk are
\* the state; every exported operation of Driver is an action.
EXTENDS Integers, Sequences, FiniteSets, TLC

VARIABLES
    conn,        \* d.conn # nil : a hypervisor session is cached
    VM,          \* d.VM : NilHandle or DomHandle
    vmLoaded,    \* d.vmLoaded
    IPAddress,   \* d.IPAddress (BaseDriver), "" when never resolved
    domDefined,  \* hypervisor: a domain record exists under d.MachineName
    domState,    \* hypervisor: native state code of that domain
    domIfaces,   \* hypervisor: interface list of the domain's live descriptor
    netDefined,  \* hypervisor: a network named d.PrivateNetwork exists
    netActive,   \* hypervisor: that network is active
    netIp,       \* its descriptor has an <ip address=...> element
    netDhcp,     \* its descriptor has a <dhcp><range .../> element
    persistDir,  \* /management-state/node/nodes/<name>_persistant exists
    Network,     \* d.Network (flag kvm-network)
    LibvirtdHostPath, \* d.LibvirtdHostPath (flag kvm-libvirtd-host-path)
    ISO,         \* d.ISO
    DiskPath,    \* d.DiskPath
    domIso,      \* hypervisor: the cdrom source file of the registered descriptor
    domDisk,     \* hypervisor: the disk source file of the registered descriptor
    isoFile,     \* where the boot image of the Create in progress is, "" if none
    diskFile,    \* where the disk image of the Create in progress is, "" if none
    leaseFile,   \* the lease file as the GetIP in progress found it (MissingFile
                 \* while there is none)
    dhcpLeases,  \* the hypervisor's DHCP leases as that GetIP found them (<<>>
                 \* while there is none)
    pc,          \* "idle", "StopPoll", "StartPoll", "returned" or "crashed"
    op,          \* the operation in progress or just returned, "" when idle
    i,           \* loop counter of the poll loop in progress
    calls,       \* hypervisor and file-system calls of that operation, in order
    result,      \* its returned error (Nil for success), Running while it runs
    retVal       \* its returned value (GetState: a state; GetIP: an address);
                 \* for Stop and Start what they read last (s, ip)

vars == <<conn, VM, vmLoaded, IPAddress, domDefined, domState, domIfaces,
          netDefined, netActive, netIp, netDhcp, persistDir,
          Network, LibvirtdHostPath, ISO, DiskPath, domIso, domDisk,
          isoFile, diskFile, leaseFile, dhcpLeases,
          pc, op, i, calls, result, retVal>>

-----------------------------------------------------------------------------
\* Program constants

StopMaxPolls == 90
StartMaxPolls == 350

Nil == "nil"
Running == "running"

\* main.go: NewDriver("default", "path").
MachineName == "default"
StorePath == "path"
isoFilename == "boot2docker.iso"
diskFilename == MachineName \o ".img"

\* BaseDriver.ResolveStorePath
ResolveStorePath(file) == StorePath \o "/machines/" \o MachineName \o "/" \o file

\* The directory prepareKVMDiskAndISO and Remove hard-code, and the paths the
\* disk and boot images are renamed to.
persistentRoot == "/management-state/node/nodes"
persistentDir(root) == root \o "/" \o MachineName \o "_persistant"
diskNewPath == persistentDir(persistentRoot) \o "/" \o diskFilename
isoNewPath == persistentDir(persistentRoot) \o "/" \o isoFilename
NilHandle == "nil"
DomHandle == "dom"

ErrConnect == "Unable to connect to kvm driver, did you add yourself to the libvirtd group?"
ErrShutdownTimeout == "VM Failed to gracefully shutdown, try the kill command"
ErrNoDHCP == "network doesn't have DHCP configured properly"
ErrMalformed == "Malformed dnsmasq file"
ErrInterfaces == "VM doesn't have enough network interfaces"

\* The error a failed hypervisor or file-system call returns.
CallErr(call) == "error: " \o call

privateNetworkName == "docker-machines"
publicNetworkName == "default"

\* libvirt's native domain state codes; DOMAIN_OTHER is any code the switch
\* of GetState does not list.
NativeStates == {"DOMAIN_NOSTATE", "DOMAIN_RUNNING", "DOMAIN_BLOCKED",
                 "DOMAIN_PAUSED", "DOMAIN_SHUTDOWN", "DOMAIN_SHUTOFF",
                 "DOMAIN_CRASHED", "DOMAIN_PMSUSPENDED", "DOMAIN_OTHER"}

\* Mutant: the switch of GetState takes a blocked domain for a running one.
mapStateBlockedRunning(virState) ==
    CASE virState = "DOMAIN_NOSTATE"     -> "None"
      [] virState = "DOMAIN_RUNNING"     -> "Running"
      [] virState = "DOMAIN_BLOCKED"     -> "Running"
      [] virState = "DOMAIN_PAUSED"      -> "Paused"
      [] virState = "DOMAIN_SHUTDOWN"    -> "Stopped"
      [] virState = "DOMAIN_CRASHED"     -> "Error"
      [] virState = "DOMAIN_PMSUSPENDED" -> "Saved"
      [] virState = "DOMAIN_SHUTOFF"     -> "Stopped"
      [] OTHER                           -> "None"

\* The switch of GetState.
mapState(virState) ==
    CASE virState = "DOMAIN_NOSTATE"     -> "None"
      [] virState = "DOMAIN_RUNNING"     -> "Running"
      [] virState = "DOMAIN_BLOCKED"     -> "Error"
      [] virState = "DOMAIN_PAUSED"      -> "Paused"
      [] virState = "DOMAIN_SHUTDOWN"    -> "Stopped"
      [] virState = "DOMAIN_CRASHED"     -> "Error"
      [] virState = "DOMAIN_PMSUSPENDED" -> "Saved"
      [] virState = "DOMAIN_SHUTOFF"     -> "Stopped"
      [] OTHER                           -> "None"

-----------------------------------------------------------------------------
\* The mutable world a handler works on, as one record, and the result of a
\* (sub)routine: the world after it, its error, its value, and whether the
\* process died of a nil dereference.

World == [conn |-> conn, VM |-> VM, vmLoaded |-> vmLoaded, IPAddress |-> IPAddress,
          domDefined |-> domDefined, domState |-> domState, domIfaces |-> domIfaces,
          netDefined |-> netDefined, netActive |-> netActive, netIp |-> netIp,
          netDhcp |-> netDhcp, persistDir |-> persistDir,
          Network |-> Network, LibvirtdHostPath |-> LibvirtdHostPath,
          ISO |-> ISO, DiskPath |-> DiskPath, domIso |-> domIso, domDisk |-> domDisk,
          isoFile |-> isoFile, diskFile |-> diskFile,
          leaseFile |-> leaseFile, dhcpLeases |-> dhcpLeases, calls |-> calls]

\* The world at the start of an operation: its call log is empty.
Fresh == [World EXCEPT !.calls = <<>>]

Ret(x, err, val) == [x |-> x, err |-> err, val |-> val, panic |-> FALSE]
Panic(x) == [x |-> x, err |-> "panic", val |-> "", panic |-> TRUE]
Log(x, call) == [x EXCEPT !.calls = Append(@, call)]

Commit(x) ==
    /\ conn' = x.conn
    /\ VM' = x.VM
    /\ vmLoaded' = x.vmLoaded
    /\ IPAddress' = x.IPAddress
    /\ domDefined' = x.domDefined
    /\ domState' = x.domState
    /\ domIfaces' = x.domIfaces
    /\ netDefined' = x.netDefined
    /\ netActive' = x.netActive
    /\ netIp' = x.netIp
    /\ netDhcp' = x.netDhcp
    /\ persistDir' = x.persistDir
    /\ Network' = x.Network
    /\ LibvirtdHostPath' = x.LibvirtdHostPath
    /\ ISO' = x.ISO
    /\ DiskPath' = x.DiskPath
    /\ domIso' = x.domIso
    /\ domDisk' = x.domDisk
    /\ isoFile' = x.isoFile
    /\ diskFile' = x.diskFile
    /\ leaseFile' = x.leaseFile
    /\ dhcpLeases' = x.dhcpLeases

\* Let(v, F) is F(v) with v evaluated once.
Let(v, F(_)) == CHOOSE out \in {F(b) : b \in {v}} : TRUE

\* Mutant: getConn opens a session at every call.
getConnAlwaysNew(x, connOk) ==
    IF connOk THEN Ret(Log([x EXCEPT !.conn = TRUE], "NewConnect"), Nil, "")
    ELSE Ret(Log(x, "NewConnect"), ErrConnect, "")

\* getConn: the cached session, or a new one; connOk is whether
\* libvirt.NewConnect succeeds.
getConn(x, connOk) ==
    IF x.conn THEN Ret(x, Nil, "")
    ELSE IF connOk THEN Ret(Log([x EXCEPT !.conn = TRUE], "NewConnect"), Nil, "")
    ELSE Ret(Log(x, "NewConnect"), ErrConnect, "")

\* validateVMRef: when the handle is not loaded, look the domain up by name.
\* A failed lookup is only logged: the function still returns nil.
validateVMRef(x, connOk, lookupOk) ==
    IF ~x.vmLoaded
    THEN Let(getConn(x, connOk), LAMBDA c :
         IF c.err # Nil THEN Ret(c.x, c.err, "")
         ELSE Let(Log(c.x, "LookupDomainByName"), LAMBDA y :
              IF ~(y.domDefined /\ lookupOk)
              THEN Ret(y, Nil, "")
              ELSE Ret([y EXCEPT !.VM = DomHandle, !.vmLoaded = TRUE], Nil, "")))
    ELSE Ret(x, Nil, "")

\* What the hypervisor and the file system do in one operation is its input e:
\* e.fail is the call that fails (one whose failure the code returns), "none"
\* when no such call fails; calls whose failure the code survives have a
\* boolean of their own (e.lookup: LookupDomainByName finds the domain if it
\* exists).
CallOk(e, call) == e.fail # call

\* GetState
GetState(x, e) ==
    Let(validateVMRef(x, CallOk(e, "NewConnect"), e.lookup), LAMBDA v :
    IF v.err # Nil THEN Ret(v.x, v.err, "None")
    ELSE Let(Log(v.x, "VM.GetState"), LAMBDA y :
         IF y.VM = NilHandle THEN Panic(y)
         ELSE IF ~(y.domDefined /\ CallOk(e, "VM.GetState"))
              THEN Ret(y, CallErr("VM.GetState"), "None")
              ELSE Ret(y, Nil, mapState(y.domState))))

\* Mutant: Stop shuts down whatever the state.
needsShutdownAlways(s) == TRUE

\* Stop shuts down only a VM whose state is not Stopped.
needsShutdown(s) == s # "Stopped"

\* Stop up to its poll loop; val = "StopPoll" when the loop is entered, and
\* else the state that Stop read.
Stop(x, e) ==
    Let(validateVMRef(x, CallOk(e, "NewConnect"), e.lookup), LAMBDA v :
    IF v.err # Nil THEN Ret(v.x, v.err, "")
    ELSE Let(GetState(v.x, e), LAMBDA g :
         IF g.panic THEN g
         ELSE IF g.err # Nil THEN Ret(g.x, g.err, "")
         ELSE IF needsShutdown(g.val)
              THEN Let(Log(g.x, "VM.Shutdown"), LAMBDA y :
                   IF y.VM = NilHandle THEN Panic(y)
                   ELSE IF ~(y.domDefined /\ CallOk(e, "VM.Shutdown"))
                        THEN Ret(y, CallErr("VM.Shutdown"), "")
                        ELSE Ret(y, Nil, "StopPoll"))
              ELSE Ret(g.x, Nil, g.val)))

\* Mutant: Stop succeeds when its budget is spent, as Start does.
stopVerdictLenient(s, n) ==
    IF s = "Stopped" THEN "done"
    ELSE IF n >= StopMaxPolls THEN "done"
    ELSE "poll"

\* One iteration of Stop's loop, the loop counter already incremented to n:
\* "done" on Stopped, "timeout" when the budget is spent, else "poll".
stopVerdict(s, n) ==
    IF s = "Stopped" THEN "done"
    ELSE IF n >= StopMaxPolls THEN "timeout"
    ELSE "poll"

\* Start up to its poll loop; val = "StartPoll" when the loop is entered.
\* The hypervisor powers a domain on only while the network of its second
\* interface is active.
Start(x, e) ==
    Let(validateVMRef(x, CallOk(e, "NewConnect"), e.lookup), LAMBDA v :
    IF v.err # Nil THEN Ret(v.x, v.err, "")
    ELSE Let(Log(v.x, "VM.Create"), LAMBDA y :
         IF y.VM = NilHandle THEN Panic(y)
         ELSE IF ~(y.domDefined /\ y.netDefined /\ y.netActive /\ CallOk(e, "VM.Create"))
              THEN Ret(y, CallErr("VM.Create"), "")
              ELSE Ret([y EXCEPT !.domState = "DOMAIN_RUNNING"], Nil, "StartPoll")))

\* One iteration of Start's loop, the loop counter already incremented to n.
startVerdict(ip, n) ==
    IF ip # "" THEN "done"
    ELSE IF n >= StartMaxPolls THEN "done"
    ELSE "poll"

\* Kill
Kill(x, e) ==
    Let(validateVMRef(x, CallOk(e, "NewConnect"), e.lookup), LAMBDA v :
    IF v.err # Nil THEN Ret(v.x, v.err, "")
    ELSE Let(Log(v.x, "VM.Destroy"), LAMBDA y :
         IF y.VM = NilHandle THEN Panic(y)
         ELSE IF ~(y.domDefined /\ CallOk(e, "VM.Destroy"))
              THEN Ret(y, CallErr("VM.Destroy"), "")
              ELSE Ret([y EXCEPT !.domState = "DOMAIN_SHUTOFF"], Nil, "")))

\* The effect of VM.Destroy and of VM.Undefine on the hypervisor's record.
destroyed(x) == [x EXCEPT !.domState = "DOMAIN_SHUTOFF"]
undefined(x) == [x EXCEPT !.domDefined = FALSE, !.domState = "DOMAIN_NOSTATE",
                          !.domIfaces = <<>>, !.domIso = "", !.domDisk = ""]

\* Mutant: Remove drops the error of VM.Undefine.
RemoveIgnoringUndefine(x, e) ==
    Let(validateVMRef(x, CallOk(e, "NewConnect"), e.lookup), LAMBDA v :
    IF v.err # Nil THEN Ret(v.x, v.err, "")
    ELSE Let(Log(v.x, "RemoveAll"), LAMBDA y :
         IF y.persistDir /\ ~CallOk(e, "RemoveAll")
         THEN Ret(y, CallErr("RemoveAll"), "")
         ELSE Let(Log([y EXCEPT !.persistDir = FALSE], "VM.Destroy"), LAMBDA z :
              IF z.VM = NilHandle THEN Panic(z)
              ELSE Let(Log(IF z.domDefined /\ e.destroy THEN destroyed(z) ELSE z,
                           "VM.Undefine"), LAMBDA u :
                   IF ~(u.domDefined /\ CallOk(e, "VM.Undefine"))
                   THEN Ret(u, Nil, "")
                   ELSE Ret(undefined(u), Nil, "")))))

\* Mutant: Remove returns the error of VM.Destroy.
RemoveFailingOnDestroy(x, e) ==
    Let(validateVMRef(x, CallOk(e, "NewConnect"), e.lookup), LAMBDA v :
    IF v.err # Nil THEN Ret(v.x, v.err, "")
    ELSE Let(Log(v.x, "RemoveAll"), LAMBDA y :
         IF y.persistDir /\ ~CallOk(e, "RemoveAll")
         THEN Ret(y, CallErr("RemoveAll"), "")
         ELSE Let(Log([y EXCEPT !.persistDir = FALSE], "VM.Destroy"), LAMBDA z :
              IF z.VM = NilHandle THEN Panic(z)
              ELSE IF ~(z.domDefined /\ e.destroy) THEN Ret(z, CallErr("VM.Destroy"), "")
              ELSE Let(Log(IF z.domDefined /\ e.destroy THEN destroyed(z) ELSE z,
                           "VM.Undefine"), LAMBDA u :
                   IF ~(u.domDefined /\ CallOk(e, "VM.Undefine"))
                   THEN Ret(u, CallErr("VM.Undefine"), "")
                   ELSE Ret(undefined(u), Nil, "")))))

\* Remove; e.destroy is whether the forced power-off succeeds.  os.RemoveAll
\* of a path that does not exist returns nil.
Remove(x, e) ==
    Let(validateVMRef(x, CallOk(e, "NewConnect"), e.lookup), LAMBDA v :
    IF v.err # Nil THEN Ret(v.x, v.err, "")
    ELSE Let(Log(v.x, "RemoveAll"), LAMBDA y :
         IF y.persistDir /\ ~CallOk(e, "RemoveAll")
         THEN Ret(y, CallErr("RemoveAll"), "")
         ELSE Let(Log([y EXCEPT !.persistDir = FALSE], "VM.Destroy"), LAMBDA z :
              IF z.VM = NilHandle THEN Panic(z)
              ELSE Let(Log(IF z.domDefined /\ e.destroy THEN destroyed(z) ELSE z,
                           "VM.Undefine"), LAMBDA u :
                   IF ~(u.domDefined /\ CallOk(e, "VM.Undefine"))
                   THEN Ret(u, CallErr("VM.Undefine"), "")
                   ELSE Ret(undefined(u), Nil, "")))))

-----------------------------------------------------------------------------
\* Network provisioning


\* validatePrivateNetwork; e.netLookup is whether LookupNetworkByName finds the
\* network if it exists, e.isActive whether network.IsActive answers.
validatePrivateNetwork(x, e) ==
    Let(getConn(x, CallOk(e, "NewConnect")), LAMBDA c :
    IF c.err # Nil THEN Ret(c.x, c.err, "")
    ELSE Let(Log(c.x, "LookupNetworkByName"), LAMBDA y :
         IF y.netDefined /\ e.netLookup
         THEN Let(Log(y, "network.GetXMLDesc"), LAMBDA z :
              IF ~CallOk(e, "network.GetXMLDesc")
              THEN Ret(z, CallErr("network.GetXMLDesc"), "")
              ELSE IF ~z.netIp THEN Ret(z, ErrNoDHCP, "")
              ELSE Let(Log(z, "network.IsActive"), LAMBDA a :
                   IF ~(a.netActive /\ e.isActive)
                   THEN Let(Log(a, "network.Create"), LAMBDA b :
                        IF ~(~b.netActive /\ CallOk(e, "network.Create"))
                        THEN Ret(b, CallErr("network.Create"), "")
                        ELSE Ret([b EXCEPT !.netActive = TRUE], Nil, ""))
                   ELSE Ret(a, Nil, "")))
         ELSE Let(Log(y, "NetworkDefineXML"), LAMBDA z :
              IF ~(~z.netDefined /\ CallOk(e, "NetworkDefineXML"))
              THEN Ret(z, Nil, "")
              ELSE Let(Log(Log([z EXCEPT !.netDefined = TRUE, !.netIp = TRUE,
                                         !.netDhcp = TRUE, !.netActive = FALSE],
                                   "network.SetAutostart"), "network.Create"), LAMBDA b :
                   IF ~CallOk(e, "network.Create")
                   THEN Ret(b, CallErr("network.Create"), "")
                   ELSE Ret([b EXCEPT !.netActive = TRUE], Nil, "")))))

\* validateNetwork(d.Network): the public network must exist.
validateNetwork(x, e) ==
    Let(getConn(x, CallOk(e, "NewConnect")), LAMBDA c :
    IF c.err # Nil THEN Ret(c.x, c.err, "")
    ELSE Let(Log(c.x, "LookupNetworkByName(public)"), LAMBDA y :
         IF ~CallOk(e, "LookupNetworkByName(public)")
         THEN Ret(y, CallErr("LookupNetworkByName(public)"), "")
         ELSE Ret(y, Nil, "")))

PreCreateCheck(x, e) ==
    Let(getConn(x, CallOk(e, "NewConnect")), LAMBDA c :
    IF c.err # Nil THEN Ret(c.x, c.err, "")
    ELSE Let(Log(c.x, "GetLibVersion"), LAMBDA y :
         IF ~CallOk(e, "GetLibVersion") THEN Ret(y, CallErr("GetLibVersion"), "")
         ELSE Let(validatePrivateNetwork(y, e), LAMBDA n :
              IF n.err # Nil THEN n
              ELSE validateNetwork(n.x, e))))

-----------------------------------------------------------------------------
\* Network discovery

MacPublic == "52:54:00:11:22:33"
MacPrivate == "52:54:00:aa:bb:cc"
MacPrivateUpper == "52:54:00:AA:BB:CC"

\* strings.ToLower on the addresses of the model.
ToLower(str) == IF str = MacPrivateUpper THEN MacPrivate ELSE str

\* Mutant: getMAC is content with one interface and returns the MAC address
\* of the first.
getMACOfFirst(x, e) ==
    Let(validateVMRef(x, CallOk(e, "NewConnect"), e.lookup), LAMBDA v :
    IF v.err # Nil THEN Ret(v.x, v.err, "")
    ELSE Let(Log(v.x, "VM.GetXMLDesc"), LAMBDA y :
         IF y.VM = NilHandle THEN Panic(y)
         ELSE IF ~(y.domDefined /\ CallOk(e, "VM.GetXMLDesc"))
              THEN Ret(y, CallErr("VM.GetXMLDesc"), "")
              ELSE IF Len(y.domIfaces) < 1 THEN Ret(y, ErrInterfaces, "")
              ELSE Ret(y, Nil, y.domIfaces[1].mac)))

\* getMAC: the MAC address of the second interface of the live descriptor.
getMAC(x, e) ==
    Let(validateVMRef(x, CallOk(e, "NewConnect"), e.lookup), LAMBDA v :
    IF v.err # Nil THEN Ret(v.x, v.err, "")
    ELSE Let(Log(v.x, "VM.GetXMLDesc"), LAMBDA y :
         IF y.VM = NilHandle THEN Panic(y)
         ELSE IF ~(y.domDefined /\ CallOk(e, "VM.GetXMLDesc"))
              THEN Ret(y, CallErr("VM.GetXMLDesc"), "")
              ELSE IF Len(y.domIfaces) < 2 THEN Ret(y, ErrInterfaces, "")
              ELSE Ret(y, Nil, y.domIfaces[2].mac)))

\* The scan of getIPByMACFromLeaseFile from line k on; a line is the sequence
\* of its space-separated fields, the empty line is <<>>.
RECURSIVE scanLeases(_, _, _)
scanLeases(lines, mac, k) ==
    IF k > Len(lines) THEN [ip |-> "", err |-> Nil]
    ELSE LET entries == lines[k] IN
         IF Len(entries) = 0 THEN scanLeases(lines, mac, k + 1)
         ELSE IF Len(entries) < 3 THEN [ip |-> "", err |-> ErrMalformed]
         ELSE IF ToLower(entries[2]) = ToLower(mac) THEN [ip |-> entries[3], err |-> Nil]
         ELSE scanLeases(lines, mac, k + 1)

\* The lease file: its lines if it exists.
File(lines) == [exists |-> TRUE, lines |-> lines]
MissingFile == [exists |-> FALSE, lines |-> <<>>]

\* getIPByMACFromLeaseFile: ioutil.ReadFile fails on a missing file.
getIPByMACFromLeaseFile(mac, file) ==
    IF ~file.exists THEN [ip |-> "", err |-> CallErr("ReadFile")]
    ELSE scanLeases(file.lines, mac, 1)

\* The loop of getIPByMacFromSettings from lease k on, ipAddr so far.
RECURSIVE scanDHCP(_, _, _, _)
scanDHCP(leases, mac, k, ipAddr) ==
    IF k > Len(leases) THEN ipAddr
    ELSE scanDHCP(leases, mac, k + 1,
                  IF mac = leases[k].Mac THEN leases[k].IPaddr ELSE ipAddr)

\* getIPByMacFromSettings; the error of LookupNetworkByName is overwritten, so
\* a failed lookup leaves a nil network that GetName dereferences.
getIPByMacFromSettings(x, mac, e, leases) ==
    Let(getConn(x, CallOk(e, "NewConnect")), LAMBDA c :
    IF c.err # Nil THEN Ret(c.x, c.err, "")
    ELSE Let(Log(Log(c.x, "LookupNetworkByName"), "network.GetName"), LAMBDA y :
         IF ~(y.netDefined /\ e.netLookup) THEN Panic(y)
         ELSE IF ~CallOk(e, "network.GetName") THEN Ret(y, CallErr("network.GetName"), "")
         ELSE Let(Log(y, "network.GetDHCPLeases"), LAMBDA z :
              IF ~CallOk(e, "network.GetDHCPLeases")
              THEN Ret(z, CallErr("network.GetDHCPLeases"), "")
              ELSE Ret(z, Nil, scanDHCP(leases, mac, 1, "")))))

\* Mutant: GetIP asks the hypervisor whatever the lease file gave.
needsLiveQueryAlways(ip) == TRUE

\* GetIP asks the hypervisor for its DHCP leases when the lease file gave no
\* address.
needsLiveQuery(ip) == ip = ""

\* GetIP; file and leases are the lease file and the hypervisor's DHCP leases
\* at the time of the call.
GetIP(x, e, file, leases) ==
    Let(getMAC(x, e), LAMBDA m :
    IF m.panic THEN m
    ELSE IF m.err # Nil THEN Ret(m.x, m.err, "")
    ELSE Let(getIPByMACFromLeaseFile(m.val, file), LAMBDA f :
         Let(IF needsLiveQuery(f.ip)
             THEN getIPByMacFromSettings(Log(m.x, "ReadFile"), m.val, e, leases)
             ELSE Ret(Log(m.x, "ReadFile"), f.err, f.ip), LAMBDA r :
         IF r.panic THEN r
         ELSE IF r.val # "" THEN Ret([r.x EXCEPT !.IPAddress = r.val], r.err, r.val)
         ELSE r)))

-----------------------------------------------------------------------------
\* Mutant: Restart goes on to Start whatever Stop returned.
afterStopIgnoringError(err) == "Start"

\* Restart once its call of Stop has returned err: when Stop failed Restart
\* returns that error, else it goes on to Start.
afterStop(err) == IF err # Nil THEN "return" ELSE "Start"

\* The log entry of Stop returning err to Restart.
StopReturned(err) == "Stop returned " \o err

restartTail(x, err, e) ==
    IF afterStop(err) = "return" THEN Ret(Log(x, StopReturned(err)), err, "")
    ELSE Start(Log(x, StopReturned(err)), e)

\* Restart up to the first poll loop it enters.
Restart(x, e) ==
    Let(Stop(x, e), LAMBDA s :
    IF s.panic \/ (s.err = Nil /\ s.val = "StopPoll") THEN s
    ELSE restartTail(s.x, s.err, e))

\* Mutant: the template lists the interface of the private network first.
templateInterfacesSwapped(x) ==
    << [network |-> privateNetworkName], [network |-> x.Network] >>

\* The interfaces of domainXMLTemplate, in the order of the template: the
\* first on d.Network, the second on d.PrivateNetwork.
templateInterfaces(x) ==
    << [network |-> x.Network], [network |-> privateNetworkName] >>

\* The descriptor that Create renders from domainXMLTemplate.
domainXML(x) ==
    [ISO |-> x.ISO, DiskPath |-> x.DiskPath, interfaces |-> templateInterfaces(x)]

\* libvirt gives every interface of a descriptor it registers a MAC address.
MacPool == <<MacPublic, MacPrivate>>
withMACs(interfaces) ==
    [k \in 1..Len(interfaces) |-> [network |-> interfaces[k].network, mac |-> MacPool[k]]]

\* The domain record after DomainDefineXML(xml).
defined(x, xml) ==
    [x EXCEPT !.domDefined = TRUE, !.domState = "DOMAIN_SHUTOFF",
              !.domIfaces = withMACs(xml.interfaces),
              !.domIso = xml.ISO, !.domDisk = xml.DiskPath]

\* os.Rename(from, to) of the file at `at`: it moves if it was at `from`.
renamed(at, from, to) == IF at = from THEN to ELSE at

\* prepareKVMDiskAndISO(d.DiskPath, d.ISO, d.MachineName): os.Mkdir fails when
\* the directory exists (e.mkdir: whether it can succeed otherwise); each step
\* that fails returns its error.
prepareKVMDiskAndISO(x, e) ==
    Let(Log(x, "Mkdir"), LAMBDA m :
    IF m.persistDir \/ ~e.mkdir THEN Ret(m, CallErr("Mkdir"), "")
    ELSE Let(Log([m EXCEPT !.persistDir = TRUE], "Rename(disk)"), LAMBDA r :
         IF ~CallOk(e, "Rename(disk)") THEN Ret(r, CallErr("Rename(disk)"), "")
         ELSE Let(Log([r EXCEPT !.diskFile = renamed(@, r.DiskPath, diskNewPath)],
                      "Rename(iso)"), LAMBDA q :
              IF ~CallOk(e, "Rename(iso)") THEN Ret(q, CallErr("Rename(iso)"), "")
              ELSE Ret([q EXCEPT !.isoFile = renamed(@, q.ISO, isoNewPath)], Nil, ""))))

\* The log entries of os.Stat(d.DiskPath) and of prepareKVMDiskAndISO returning.
StatExists == "Stat(d.DiskPath): exists"
StatNotExist == "Stat(d.DiskPath): not exist"
PrepareReturned(err) == "prepareKVMDiskAndISO returned " \o err

\* The calls of Create up to prepareKVMDiskAndISO, in order; the disk image is
\* made, and the permissions fixed, only when os.Stat finds no d.DiskPath.
createSteps(diskExists) ==
    IF diskExists THEN <<"CopyIsoToMachineDir", "GenerateSSHKey", StatExists>>
    ELSE <<"CopyIsoToMachineDir", "GenerateSSHKey", StatNotExist,
           "createRawDiskImage", "fixPermissions">>

\* What a step that succeeded leaves on disk.
stepDone(x, step) ==
    IF step = "CopyIsoToMachineDir" THEN [x EXCEPT !.isoFile = ResolveStorePath(isoFilename)]
    ELSE IF step \in {StatExists, "createRawDiskImage"} THEN [x EXCEPT !.diskFile = x.DiskPath]
    ELSE x

\* The steps from k on: the first that fails returns its error.
RECURSIVE runSteps(_, _, _, _)
runSteps(x, steps, k, e) ==
    IF k > Len(steps) THEN Ret(x, Nil, "")
    ELSE IF ~CallOk(e, steps[k]) THEN Ret(Log(x, steps[k]), CallErr(steps[k]), "")
    ELSE runSteps(stepDone(Log(x, steps[k]), steps[k]), steps, k + 1, e)

\* With a host path configured Create points d.ISO and d.DiskPath into it.
hostPaths(x) ==
    IF x.LibvirtdHostPath # ""
    THEN [x EXCEPT !.ISO = persistentDir(x.LibvirtdHostPath) \o "/" \o isoFilename,
                   !.DiskPath = persistentDir(x.LibvirtdHostPath) \o "/" \o diskFilename]
    ELSE x

\* Create; e.diskExists is whether os.Stat finds d.DiskPath.  The error of
\* prepareKVMDiskAndISO is dropped.
Create(x, e) ==
    Let(runSteps(x, createSteps(e.diskExists), 1, e), LAMBDA a :
    IF a.err # Nil THEN a
    ELSE Let(prepareKVMDiskAndISO(a.x, e), LAMBDA p :
         Let(Log(hostPaths(Log(p.x, PrepareReturned(p.err))), "template.Execute"), LAMBDA t :
         Let(getConn(t, CallOk(e, "NewConnect")), LAMBDA g :
         IF g.err # Nil THEN Ret(g.x, g.err, "")
         ELSE Let(Log(g.x, "DomainDefineXML"), LAMBDA h :
              IF ~(~h.domDefined /\ CallOk(e, "DomainDefineXML"))
              THEN Ret(h, CallErr("DomainDefineXML"), "")
              ELSE Start([defined(h, domainXML(h)) EXCEPT
                             !.VM = DomHandle, !.vmLoaded = TRUE], e))))))

\* NewDriver: a driver with no session and no domain handle.
NewDriver(x) ==
    [x EXCEPT !.conn = FALSE, !.VM = NilHandle, !.vmLoaded = FALSE, !.IPAddress = ""]

-----------------------------------------------------------------------------
\* Inputs

LineMatch == <<"1700000000", MacPrivateUpper, "192.168.42.10", "host", "*">>
LineOther == <<"1700000000", MacPublic, "192.168.42.30", "other", "*">>
LineShort == <<"1700000000", MacPrivate>>
LineEmpty == <<>>

LeaseFiles == {MissingFile, File(<<LineEmpty, LineMatch>>), File(<<LineOther, LineShort>>)}

LeaseA == [Mac |-> MacPrivate, IPaddr |-> "192.168.42.10"]
LeaseC == [Mac |-> MacPublic, IPaddr |-> "192.168.42.30"]

DhcpLeases == {<<LeaseC>>, <<LeaseC, LeaseA>>}

\* More lease files and lease tables, for the resolver on its own: a line of
\* exactly three fields, a malformed line before and after the matching one,
\* two leases of one MAC, a lease whose MAC differs in letter case.
LineLower == <<"1700000000", MacPrivate, "192.168.42.20">>
LeaseB == [Mac |-> MacPrivate, IPaddr |-> "192.168.42.11"]
LeaseUpper == [Mac |-> MacPrivateUpper, IPaddr |-> "192.168.42.12"]

AllLeaseFiles == LeaseFiles \cup
    { File(<<LineEmpty>>), File(<<LineOther>>), File(<<LineShort, LineMatch>>),
      File(<<LineMatch, LineShort>>), File(<<LineOther, LineEmpty, LineLower, LineMatch>>) }
AllDhcpLeases == DhcpLeases \cup
    { <<>>, <<LeaseA, LeaseB>>, <<LeaseB, LeaseC, LeaseA>>, <<LeaseUpper>> }

\* NewConnect is called only while no session is cached, and the private
\* network can be found only if it exists.
ConnFails == IF conn THEN {} ELSE {"NewConnect"}
NetLookupChoices == IF netDefined THEN BOOLEAN ELSE {FALSE}

\* The lookup by name is consulted only while the handle is not loaded.
LookupChoices == IF vmLoaded THEN {TRUE} ELSE BOOLEAN

StopFails == ConnFails \cup {"none", "VM.GetState", "VM.Shutdown"}
StartFails == ConnFails \cup {"none", "VM.Create"}
KillFails == ConnFails \cup {"none", "VM.Destroy"}
RemoveFails == ConnFails \cup {"none", "RemoveAll", "VM.Undefine"}
GetStateFails == ConnFails \cup {"none", "VM.GetState"}
CreateFails == {"none", "CopyIsoToMachineDir", "GenerateSSHKey", "createRawDiskImage",
                "fixPermissions", "Rename(disk)", "Rename(iso)", "DomainDefineXML",
                "VM.Create"} \cup ConnFails
PreCreateFails == {"none", "GetLibVersion", "network.GetXMLDesc", "network.Create",
                   "NetworkDefineXML", "LookupNetworkByName(public)"} \cup ConnFails
GetIPFails == ConnFails \cup {"none", "VM.GetXMLDesc", "network.GetName",
               "network.GetDHCPLeases"}

-----------------------------------------------------------------------------
Init ==
    /\ conn = FALSE
    /\ VM = NilHandle
    /\ vmLoaded = FALSE
    /\ IPAddress = ""
    /\ domDefined = FALSE
    /\ domState = "DOMAIN_NOSTATE"
    /\ domIfaces = <<>>
    /\ netDefined = FALSE
    /\ netActive = FALSE
    /\ netIp = FALSE
    /\ netDhcp = FALSE
    /\ persistDir = FALSE
    /\ Network = publicNetworkName
    /\ LibvirtdHostPath = ""
    /\ ISO = ResolveStorePath(isoFilename)
    /\ DiskPath = ResolveStorePath(diskFilename)
    /\ domIso = ""
    /\ domDisk = ""
    /\ isoFile = ""
    /\ diskFile = ""
    /\ leaseFile = MissingFile
    /\ dhcpLeases = <<>>
    /\ pc = "idle"
    /\ op = ""
    /\ i = 0
    /\ calls = <<>>
    /\ result = Nil
    /\ retVal = ""

-----------------------------------------------------------------------------
\* Actions

\* Operation name returns r after n iterations of its loop.
Return(r, name, n) ==
    /\ Commit(r.x)
    /\ calls' = r.x.calls
    /\ op' = name
    /\ i' = n
    /\ pc' = IF r.panic THEN "crashed" ELSE "returned"
    /\ result' = r.err
    /\ retVal' = r.val

\* Operation name has run up to r: it returns, or enters the poll loop r names.
Proceed(r, name, n) ==
    IF ~r.panic /\ r.err = Nil /\ r.val \in {"StopPoll", "StartPoll"}
    THEN /\ Commit(r.x)
         /\ calls' = r.x.calls
         /\ op' = name
         /\ i' = 0
         /\ pc' = r.val
         /\ result' = Running
         /\ retVal' = ""
    ELSE Return(r, name, n)

\* The caller has the result and may invoke the next operation.
CallerTakesResult ==
    /\ pc = "returned"
    /\ pc' = "idle"
    /\ op' = ""
    /\ i' = 0
    /\ calls' = <<>>
    /\ result' = Nil
    /\ retVal' = ""
    /\ isoFile' = ""
    /\ diskFile' = ""
    /\ leaseFile' = MissingFile
    /\ dhcpLeases' = <<>>
    /\ UNCHANGED <<conn, VM, vmLoaded, IPAddress, domDefined, domState, domIfaces,
                   netDefined, netActive, netIp, netDhcp, persistDir,
                   Network, LibvirtdHostPath, ISO, DiskPath, domIso, domDisk>>

\* A new driver process is started (after a crash, or for the next command).
DoNewDriver ==
    /\ pc \in {"idle", "crashed"}
    /\ \E r \in {Ret(NewDriver(Fresh), Nil, "")} : Return(r, "NewDriver", 0)

DoGetState ==
    /\ pc = "idle"
    /\ \E e \in [fail : GetStateFails, lookup : LookupChoices] :
         \E r \in {GetState(Fresh, e)} : Return(r, "GetState", 0)

\* GetIP, finding one of the given lease files and lease tables.
GetIPOn(files, tables) ==
    /\ pc = "idle"
    /\ \E e \in [fail : GetIPFails, lookup : LookupChoices, netLookup : NetLookupChoices],
          file \in files, leases \in tables :
         \E r \in {GetIP([Fresh EXCEPT !.leaseFile = file, !.dhcpLeases = leases],
                         e, file, leases)} : Return(r, "GetIP", 0)

DoGetIP == GetIPOn(LeaseFiles, DhcpLeases)

DoKill ==
    /\ pc = "idle"
    /\ \E e \in [fail : KillFails, lookup : LookupChoices] :
         \E r \in {Kill(Fresh, e)} : Return(r, "Kill", 0)

DoRemove ==
    /\ pc = "idle"
    /\ \E e \in [fail : RemoveFails, lookup : LookupChoices, destroy : BOOLEAN] :
         \E r \in {Remove(Fresh, e)} : Return(r, "Remove", 0)

DoPreCreateCheck ==
    /\ pc = "idle"
    /\ \E e \in [fail : PreCreateFails, netLookup : NetLookupChoices, isActive : BOOLEAN] :
         \E r \in {PreCreateCheck(Fresh, e)} : Return(r, "PreCreateCheck", 0)

DoCreate ==
    /\ pc = "idle"
    /\ \E e \in [fail : CreateFails, lookup : {TRUE}, diskExists : BOOLEAN, mkdir : BOOLEAN] :
         \E r \in {Create(Fresh, e)} : Proceed(r, "Create", 0)

DoStart ==
    /\ pc = "idle"
    /\ \E e \in [fail : StartFails, lookup : LookupChoices] :
         \E r \in {Start(Fresh, e)} : Proceed(r, "Start", 0)

DoStop ==
    /\ pc = "idle"
    /\ \E e \in [fail : StopFails, lookup : LookupChoices] :
         \E r \in {Stop(Fresh, e)} : Proceed(r, "Stop", 0)

DoRestart ==
    /\ pc = "idle"
    /\ \E e \in [fail : StopFails \cup StartFails, lookup : LookupChoices] :
         \E r \in {Restart(Fresh, e)} : Proceed(r, "Restart", 0)

\* One iteration of the loop of Stop: sleep, read the state, decide.  When the
\* loop ends Stop returns; under Restart a successful Stop is followed by Start.
StopPoll ==
    /\ pc = "StopPoll"
    /\ \E e \in [fail : {"none", "VM.GetState", "VM.Create"}, lookup : LookupChoices] :
       \E g \in {GetState(World, e)} :
       \E y \in {[g.x EXCEPT !.calls = calls]} :
       \E v \in {stopVerdict(g.val, i + 1)} :
          IF g.panic THEN Return(g, op, i + 1)
          ELSE IF v = "poll"
               THEN /\ Commit(y)
                    /\ i' = i + 1
                    /\ retVal' = g.val
                    /\ UNCHANGED <<pc, op, calls, result>>
          ELSE IF op = "Restart"
               THEN \E r \in {restartTail(y, IF v = "timeout" THEN ErrShutdownTimeout ELSE Nil, e)} :
                       Proceed(r, op, i + 1)
          ELSE \E r \in {Ret(y, IF v = "timeout" THEN ErrShutdownTimeout ELSE Nil, g.val)} :
                  Return(r, op, i + 1)

\* One iteration of the loop of Start: sleep, resolve the address, decide.
StartPoll ==
    /\ pc = "StartPoll"
    /\ \E e \in [fail : GetIPFails, lookup : LookupChoices, netLookup : NetLookupChoices],
          file \in LeaseFiles, leases \in DhcpLeases :
       \E g \in {GetIP(World, e, file, leases)} :
       \E y \in {[g.x EXCEPT !.calls = calls]} :
          IF g.panic THEN Return(g, op, i + 1)
          ELSE IF startVerdict(g.val, i + 1) = "poll"
               THEN /\ Commit(y)
                    /\ i' = i + 1
                    /\ retVal' = g.val
                    /\ UNCHANGED <<pc, op, calls, result>>
          ELSE \E r \in {Ret(y, Nil, g.val)} : Return(r, op, i + 1)

\* The hypervisor moves the domain to another state on its own (the guest
\* shuts down, crashes, is paused by an administrator).  Start's loop reads
\* no domain state, so the change is not interleaved with it.
HypervisorStateChange ==
    /\ pc \in {"idle", "StopPoll"}
    /\ domDefined
    /\ \E s \in NativeStates \ {domState} : domState' = s
    /\ UNCHANGED <<conn, VM, vmLoaded, IPAddress, domDefined, domIfaces, netDefined,
                   netActive, netIp, netDhcp, persistDir,
                   Network, LibvirtdHostPath, ISO, DiskPath, domIso, domDisk,
                   isoFile, diskFile, leaseFile, dhcpLeases,
                   pc, op, i, calls, result, retVal>>

Next ==
    \/ CallerTakesResult
    \/ DoNewDriver
    \/ DoGetState
    \/ DoGetIP
    \/ DoKill
    \/ DoRemove
    \/ DoPreCreateCheck
    \/ DoCreate
    \/ DoStart
    \/ DoStop
    \/ DoRestart
    \/ StopPoll
    \/ StartPoll
    \/ HypervisorStateChange

Spec == Init /\ [][Next]_vars

-----------------------------------------------------------------------------
\* The network provisioner on a host where the private network may already
\* exist, in any configuration.

InitNet ==
    /\ conn = FALSE
    /\ VM = NilHandle
    /\ vmLoaded = FALSE
    /\ IPAddress = ""
    /\ domDefined = FALSE
    /\ domState = "DOMAIN_NOSTATE"
    /\ domIfaces = <<>>
    /\ netDefined \in BOOLEAN
    /\ netActive \in BOOLEAN
    /\ netIp \in BOOLEAN
    /\ netDhcp \in BOOLEAN
    /\ (netDhcp => netIp)
    /\ (~netDefined => ~netActive /\ ~netIp)
    /\ persistDir = FALSE
    /\ Network = publicNetworkName
    /\ LibvirtdHostPath = ""
    /\ ISO = ResolveStorePath(isoFilename)
    /\ DiskPath = ResolveStorePath(diskFilename)
    /\ domIso = ""
    /\ domDisk = ""
    /\ isoFile = ""
    /\ diskFile = ""
    /\ leaseFile = MissingFile
    /\ dhcpLeases = <<>>
    /\ pc = "idle"
    /\ op = ""
    /\ i = 0
    /\ calls = <<>>
    /\ result = Nil
    /\ retVal = ""

\* An administrator stops the private network.
NetworkStopped ==
    /\ pc = "idle"
    /\ netActive
    /\ netActive' = FALSE
    /\ UNCHANGED <<conn, VM, vmLoaded, IPAddress, domDefined, domState, domIfaces,
                   netDefined, netIp, netDhcp, persistDir,
                   Network, LibvirtdHostPath, ISO, DiskPath, domIso, domDisk,
                   isoFile, diskFile, leaseFile, dhcpLeases,
                   pc, op, i, calls, result, retVal>>

NextNet ==
    \/ CallerTakesResult
    \/ DoNewDriver
    \/ DoPreCreateCheck
    \/ NetworkStopped

SpecNet == InitNet /\ [][NextNet]_vars

-----------------------------------------------------------------------------
\* The resolver on its own: a machine that Create has defined and started, the
\* driver either the process that created it or a new one, and GetIP finding
\* any of the lease files and lease tables above.

InitResolve ==
    /\ \E loaded \in BOOLEAN :
          /\ conn = loaded
          /\ vmLoaded = loaded
          /\ VM = IF loaded THEN DomHandle ELSE NilHandle
    /\ IPAddress = ""
    /\ domDefined = TRUE
    /\ domState = "DOMAIN_RUNNING"
    /\ Network = publicNetworkName
    /\ LibvirtdHostPath = ""
    /\ ISO = ResolveStorePath(isoFilename)
    /\ DiskPath = ResolveStorePath(diskFilename)
    /\ domIfaces = withMACs(templateInterfaces([Network |-> Network]))
    /\ domIso = ISO
    /\ domDisk = DiskPath
    /\ netDefined = TRUE
    /\ netActive = TRUE
    /\ netIp = TRUE
    /\ netDhcp = TRUE
    /\ persistDir = TRUE
    /\ isoFile = ""
    /\ diskFile = ""
    /\ leaseFile = MissingFile
    /\ dhcpLeases = <<>>
    /\ pc = "idle"
    /\ op = ""
    /\ i = 0
    /\ calls = <<>>
    /\ result = Nil
    /\ retVal = ""

DoResolve == GetIPOn(AllLeaseFiles, AllDhcpLeases)

\* The interface lists a live descriptor can have once an administrator has
\* detached or attached interfaces: none, one, the two of the template, three.
MacThird == "52:54:00:dd:ee:ff"
InterfaceLists ==
    { <<>>,
      << [network |-> privateNetworkName, mac |-> MacPrivate] >>,
      << [network |-> publicNetworkName, mac |-> MacPublic],
         [network |-> privateNetworkName, mac |-> MacPrivate] >>,
      << [network |-> publicNetworkName, mac |-> MacPublic],
         [network |-> privateNetworkName, mac |-> MacPrivate],
         [network |-> publicNetworkName, mac |-> MacThird] >> }

\* An administrator changes the interfaces of the domain.
InterfacesChanged ==
    /\ pc = "idle"
    /\ domDefined
    /\ \E ifaces \in InterfaceLists \ {domIfaces} : domIfaces' = ifaces
    /\ UNCHANGED <<conn, VM, vmLoaded, IPAddress, domDefined, domState, netDefined,
                   netActive, netIp, netDhcp, persistDir,
                   Network, LibvirtdHostPath, ISO, DiskPath, domIso, domDisk,
                   isoFile, diskFile, leaseFile, dhcpLeases,
                   pc, op, i, calls, result, retVal>>

NextResolve ==
    \/ CallerTakesResult
    \/ DoNewDriver
    \/ DoResolve
    \/ InterfacesChanged

SpecResolve == InitResolve /\ [][NextResolve]_vars

-----------------------------------------------------------------------------
\* Create under every configuration of the flags kvm-network and
\* kvm-libvirtd-host-path.

Networks == {publicNetworkName, "bridge0"}
HostPaths == {"", persistentRoot, "/var/lib/kvm"}

InitCreate ==
    /\ conn = FALSE
    /\ VM = NilHandle
    /\ vmLoaded = FALSE
    /\ IPAddress = ""
    /\ domDefined = FALSE
    /\ domState = "DOMAIN_NOSTATE"
    /\ domIfaces = <<>>
    /\ netDefined = FALSE
    /\ netActive = FALSE
    /\ netIp = FALSE
    /\ netDhcp = FALSE
    /\ persistDir = FALSE
    /\ Network \in Networks
    /\ LibvirtdHostPath \in HostPaths
    /\ ISO = ResolveStorePath(isoFilename)
    /\ DiskPath = ResolveStorePath(diskFilename)
    /\ domIso = ""
    /\ domDisk = ""
    /\ isoFile = ""
    /\ diskFile = ""
    /\ leaseFile = MissingFile
    /\ dhcpLeases = <<>>
    /\ pc = "idle"
    /\ op = ""
    /\ i = 0
    /\ calls = <<>>
    /\ result = Nil
    /\ retVal = ""

NextCreate ==
    \/ CallerTakesResult
    \/ DoNewDriver
    \/ DoPreCreateCheck
    \/ DoCreate
    \/ DoRemove
    \/ StartPoll

SpecCreate == InitCreate /\ [][NextCreate]_vars

-----------------------------------------------------------------------------
\* Properties

Has(seq, x) == \E k \in 1..Len(seq) : seq[k] = x
Count(seq, x) == Cardinality({k \in 1..Len(seq) : seq[k] = x})
Before(seq, x, y) == \E k \in 1..Len(seq) : \E m \in 1..Len(seq) :
                        k < m /\ seq[k] = x /\ seq[m] = y

\* C1: a Stop that finds the VM not Stopped issues VM.Shutdown once and then
\* reads the state at most StopMaxPolls times; no read before the last one saw
\* Stopped; it returns nil exactly when its last read saw Stopped, and the
\* shutdown-timeout error only after StopMaxPolls reads none of which did.
C1_StopPollsThenTimesOut ==
    /\ pc = "StopPoll" =>
          /\ Count(calls, "VM.Shutdown") = 1
          /\ i < StopMaxPolls
          /\ (i > 0 => retVal # "Stopped")
    /\ (pc = "returned" /\ op = "Stop" /\ i > 0) =>
          /\ Count(calls, "VM.Shutdown") = 1
          /\ i <= StopMaxPolls
          /\ (result = Nil <=> retVal = "Stopped")
          /\ (result # Nil => result = ErrShutdownTimeout /\ i = StopMaxPolls)

C1_Witness ==
    /\ pc = "returned" /\ op = "Stop"
    /\ result = ErrShutdownTimeout /\ i = StopMaxPolls
    /\ retVal = "Running"

\* C2: when Stop reads the state of a domain that is Stopped, it returns nil
\* at once: no VM.Shutdown, no poll, and the hypervisor's record of the domain
\* is what it was.
C2_StopOnStoppedIsNoOp ==
    [][ ( /\ pc = "idle" /\ op' = "Stop"
          /\ domDefined /\ mapState(domState) = "Stopped"
          /\ Has(calls', "VM.GetState")
          /\ pc' # "crashed" /\ result' # CallErr("VM.GetState") )
        => ( /\ pc' = "returned" /\ result' = Nil /\ i' = 0
             /\ ~Has(calls', "VM.Shutdown")
             /\ domState' = domState /\ domDefined' = domDefined
             /\ domIfaces' = domIfaces ) ]_vars

C2_Witness ==
    /\ pc = "returned" /\ op = "Stop" /\ result = Nil /\ i = 0
    /\ domDefined /\ domState = "DOMAIN_SHUTOFF"
    /\ Has(calls, "VM.GetState") /\ ~Has(calls, "VM.Shutdown")

\* C3 (as claimed): once Start's power-on has succeeded (its loop has run),
\* Start ends by returning nil, after at most StartMaxPolls polls.
C3_StartReturnsSuccess ==
    (op = "Start" /\ i > 0 /\ pc \in {"returned", "crashed"}) =>
        (pc = "returned" /\ result = Nil /\ i <= StartMaxPolls)

\* C4: Restart runs Stop, then Start: VM.Create is issued only after Stop has
\* returned nil, and when Stop returns an error Restart returns that error
\* without VM.Create.
StopErrors == {ErrConnect, CallErr("VM.GetState"), CallErr("VM.Shutdown"),
               ErrShutdownTimeout}

C4_RestartStopsThenStarts ==
    op = "Restart" =>
        /\ Has(calls, "VM.Create") => Before(calls, StopReturned(Nil), "VM.Create")
        /\ pc = "StartPoll" => Has(calls, "VM.Create")
        /\ \A err \in StopErrors :
              Has(calls, StopReturned(err)) =>
                  /\ ~Has(calls, "VM.Create")
                  /\ pc = "returned"
                  /\ result = err

C4_Witness ==
    /\ pc = "returned" /\ op = "Restart"
    /\ result = ErrShutdownTimeout
    /\ Has(calls, StopReturned(ErrShutdownTimeout))
    /\ i = StopMaxPolls

\* C5: whenever Remove has returned nil the hypervisor holds no domain record
\* for the machine, and a domain record comes to exist only by Create's
\* DomainDefineXML (none exists at the start).
C5_NoDomainOutsideCreateRemove ==
    /\ ~domDefined
    /\ []((pc = "returned" /\ op = "Remove" /\ result = Nil) => ~domDefined)
    /\ [][ (~domDefined /\ domDefined') =>
              (op' = "Create" /\ Has(calls', "DomainDefineXML")) ]_vars

C5_Witness ==
    /\ pc = "returned" /\ op = "Remove" /\ result = Nil
    /\ Has(calls, "VM.Undefine") /\ vmLoaded /\ ~domDefined

\* C6: Remove calls RemoveAll, VM.Destroy, VM.Undefine in that order; RemoveAll
\* fails only on a directory that exists; once VM.Destroy has been called and
\* Remove returns, VM.Undefine was called and Remove returned its result: nil
\* with the record gone, or the undefine error.
RemoveSteps == <<"RemoveAll", "VM.Destroy", "VM.Undefine">>
StepsOf(seq) == SelectSeq(seq, LAMBDA c : c \in {"RemoveAll", "VM.Destroy", "VM.Undefine"})

C6_RemoveOrderAndResult ==
    (op = "Remove" /\ pc \in {"returned", "crashed"}) =>
        /\ StepsOf(calls) = SubSeq(RemoveSteps, 1, Len(StepsOf(calls)))
        /\ result = CallErr("RemoveAll") => persistDir
        /\ (pc = "returned" /\ Has(calls, "VM.Destroy")) =>
              /\ Has(calls, "VM.Undefine")
              /\ result \in {Nil, CallErr("VM.Undefine")}
              /\ (result = Nil => ~domDefined)

\* Remove returned the undefine error, and its VM.Destroy had failed too (the
\* domain is still running).
C6_Witness ==
    /\ pc = "returned" /\ op = "Remove"
    /\ result = CallErr("VM.Undefine")
    /\ domDefined /\ domState = "DOMAIN_RUNNING"
    /\ ~persistDir
    /\ StepsOf(calls) = RemoveSteps

\* C7 (as claimed): GetState on a driver whose handle is not loaded does not
\* crash, looks the domain up once and, when the lookup fails, returns None
\* and an error without calling VM.GetState.
C7_GetStateUnloadedIsSafe ==
    (op = "GetState" /\ pc \in {"returned", "crashed"} /\ Has(calls, "LookupDomainByName")) =>
        /\ pc = "returned"
        /\ Count(calls, "LookupDomainByName") = 1
        /\ ~vmLoaded => (retVal = "None" /\ result # Nil /\ ~Has(calls, "VM.GetState"))

\* C8 (as claimed): an operation calls the hypervisor through the domain
\* handle only when the handle is loaded, and returns an error when the
\* lookup by name fails.
HandleCalls == {"VM.GetState", "VM.Shutdown", "VM.Create", "VM.Destroy",
                "VM.Undefine", "VM.GetXMLDesc"}

C8_HandleUsedOnlyWhenLoaded ==
    (op \in {"Start", "Stop", "Kill", "Remove", "GetState", "GetIP"}
       /\ pc \in {"returned", "crashed"}) =>
        /\ (\E c \in HandleCalls : Has(calls, c)) => (vmLoaded /\ VM = DomHandle)
        /\ (Has(calls, "LookupDomainByName") /\ ~vmLoaded) =>
              (pc = "returned" /\ result # Nil)

\* C9 (as claimed): when validatePrivateNetwork has returned nil (PreCreateCheck
\* went on to validateNetwork) the private network exists and is active.
C9_PrivateNetworkReady ==
    (op = "PreCreateCheck" /\ pc = "returned" /\ Has(calls, "LookupNetworkByName(public)")) =>
        (netDefined /\ netActive)

\* C10 (as claimed): when the private network exists and its descriptor has
\* been read, validatePrivateNetwork fails with the DHCP error if and only if
\* the descriptor has no DHCP range.
C10_RejectsExactlyNoDhcpRange ==
    (op = "PreCreateCheck" /\ pc = "returned" /\ Has(calls, "network.GetXMLDesc")
       /\ result # CallErr("network.GetXMLDesc")) =>
        (result = ErrNoDHCP <=> ~netDhcp)

\* C11 (as claimed): a Create that registers the domain has first ensured the
\* private network (looked it up), then rendered the descriptor, then called
\* DomainDefineXML, and calls VM.Create (Start) only after that.
C11_CreateEnsuresNetworkFirst ==
    (op = "Create" /\ Has(calls, "DomainDefineXML")) =>
        /\ Before(calls, "LookupNetworkByName", "template.Execute")
        /\ Before(calls, "template.Execute", "DomainDefineXML")
        /\ Has(calls, "VM.Create") => Before(calls, "DomainDefineXML", "VM.Create")

\* C12 (as claimed): a Create that finds d.DiskPath already there returns an
\* error, and neither registers a domain nor starts it.
C12_ExistingDiskIsAConflict ==
    (op = "Create" /\ Has(calls, StatExists)) =>
        /\ pc # "StartPoll"
        /\ pc = "returned" => result # Nil
        /\ ~Has(calls, "DomainDefineXML")
        /\ ~Has(calls, "VM.Create")

\* What a reader of the lease file finds for mac: the lines that carry it
\* (letter case apart) and the non-empty lines of fewer than three fields.
MatchAt(file, mac) ==
    {k \in 1..Len(file.lines) :
        Len(file.lines[k]) >= 3 /\ ToLower(file.lines[k][2]) = ToLower(mac)}
MalformedAt(file) == {k \in 1..Len(file.lines) : Len(file.lines[k]) \in {1, 2}}
Least(S) == CHOOSE k \in S : \A j \in S : k <= j

\* The lease file has no entry for mac: it is missing, or no line carries mac.
NoFileEntry(file, mac) == ~file.exists \/ MatchAt(file, mac) = {}

\* The address the lease file yields for mac, "" when it yields none.
FileAddress(file, mac) ==
    IF NoFileEntry(file, mac) THEN ""
    ELSE IF \E j \in MalformedAt(file) : j < Least(MatchAt(file, mac)) THEN ""
    ELSE file.lines[Least(MatchAt(file, mac))][3]

\* The GetIP in progress got the MAC and read the lease file; it asked the
\* hypervisor for the private network.
ReadLeaseFile == op = "GetIP" /\ pc \in {"returned", "crashed"} /\ Has(calls, "ReadFile")
LiveQueried == Has(calls, "LookupNetworkByName")

\* C13: GetIP reads the lease file first; it queries the hypervisor's leases
\* only when the file yielded no address, and always when the file is missing
\* or has no line for the MAC; an address the file yields is returned (and
\* cached) without a live query; when neither the file nor the lease table the
\* hypervisor returned has an entry for the MAC, GetIP returns "" and nil.
C13_LeaseFileFirst ==
    ReadLeaseFile =>
        LET mac == domIfaces[2].mac
            addr == FileAddress(leaseFile, mac)
        IN /\ Before(calls, "ReadFile", "LookupNetworkByName") \/ ~LiveQueried
           /\ LiveQueried => addr = ""
           /\ NoFileEntry(leaseFile, mac) => LiveQueried
           /\ addr # "" =>
                 /\ pc = "returned" /\ result = Nil /\ retVal = addr
                 /\ IPAddress = addr
                 /\ ~LiveQueried
           /\ ( /\ NoFileEntry(leaseFile, mac)
                /\ \A k \in 1..Len(dhcpLeases) : dhcpLeases[k].Mac # mac
                /\ pc = "returned"
                /\ Has(calls, "network.GetDHCPLeases")
                /\ result # CallErr("network.GetDHCPLeases") )
              => (retVal = "" /\ result = Nil)

\* The file has no line for the MAC, the hypervisor's table has its lease:
\* GetIP fell back to the live query and returned that address.
C13_Witness ==
    /\ ReadLeaseFile /\ pc = "returned"
    /\ leaseFile = File(<<LineOther>>)
    /\ dhcpLeases = <<LeaseC, LeaseA>>
    /\ LiveQueried
    /\ result = Nil /\ retVal = LeaseA.IPaddr

\* The scan of the lease file for mac meets a malformed line: the file has
\* one, and no line before it carries mac.
MeetsMalformed(file, mac) ==
    \E j \in MalformedAt(file) : \A k \in MatchAt(file, mac) : j < k

\* C14 (as claimed): when the scan of the lease file meets a malformed line,
\* GetIP returns an error and no address, whatever the hypervisor's leases;
\* and a file without such a line before the match yields the address of the
\* first line that carries the MAC, empty lines and letter case apart.
C14_MalformedLineIsHardFailure ==
    (ReadLeaseFile /\ pc = "returned") =>
        LET mac == domIfaces[2].mac
        IN /\ MeetsMalformed(leaseFile, mac) => (result # Nil /\ retVal = "")
           /\ FileAddress(leaseFile, mac) # "" =>
                 (pc = "returned" /\ result = Nil
                    /\ retVal = FileAddress(leaseFile, mac))

\* C15 (as claimed): while the loaded flag is true the cached handle is that
\* of a domain record the hypervisor holds.
C15_LoadedHandleHasRecord ==
    vmLoaded => (VM = DomHandle /\ domDefined)

\* C16 (as claimed): when the private network exists, is inactive, and its
\* reactivation fails, validatePrivateNetwork still returns nil (PreCreateCheck
\* goes on to validateNetwork).
C16_ReactivationFailureIsOnlyLogged ==
    ( /\ op = "PreCreateCheck" /\ pc = "returned"
      /\ Has(calls, "network.IsActive") /\ Has(calls, "network.Create")
      /\ ~netActive )
    => ( /\ result # CallErr("network.Create")
         /\ Has(calls, "LookupNetworkByName(public)") )

\* The sub-steps of Create whose failure Create returns, and the errors of
\* prepareKVMDiskAndISO.
FailingSteps == {"CopyIsoToMachineDir", "GenerateSSHKey", "createRawDiskImage",
                 "fixPermissions", "DomainDefineXML"}
RelocationErrors == {CallErr("Mkdir"), CallErr("Rename(disk)"), CallErr("Rename(iso)")}

\* C17 (as claimed): a Create one of whose sub-steps failed has returned that
\* error: the failed step is the last call it made, no domain was registered
\* after a failure, and VM.Create (Start) was not called.
C17_CreateHaltsOnFailure ==
    op = "Create" =>
        /\ \A step \in FailingSteps :
              (pc = "returned" /\ result = CallErr(step)) =>
                  /\ calls[Len(calls)] = step
                  /\ ~Has(calls, "VM.Create")
        /\ \A err \in RelocationErrors :
              Has(calls, PrepareReturned(err)) =>
                  /\ pc = "returned" /\ result = err
                  /\ ~Has(calls, "template.Execute")
                  /\ ~Has(calls, "DomainDefineXML")
                  /\ ~Has(calls, "VM.Create")

\* The leases of the table that carry mac exactly.
LeasesOf(table, mac) == {k \in 1..Len(table) : table[k].Mac = mac}

\* C19 (as claimed): a live query that succeeded returns the address of the
\* first lease of the table whose MAC is the requested one, "" if none is.
C19_FirstLeaseWins ==
    ( /\ ReadLeaseFile /\ pc = "returned" /\ result = Nil
      /\ Has(calls, "network.GetDHCPLeases") )
    => LET mac == domIfaces[2].mac
       IN retVal = IF LeasesOf(dhcpLeases, mac) = {} THEN ""
                   ELSE dhcpLeases[Least(LeasesOf(dhcpLeases, mac))].IPaddr

\* This Create has registered the domain.
Registered ==
    /\ op = "Create" /\ Has(calls, "DomainDefineXML")
    /\ pc = "StartPoll" \/ result # CallErr("DomainDefineXML")

\* C18 (as claimed): the image paths of the descriptor that Create registered
\* are where Create left the files: in the store when no host path is
\* configured, and else in the persistent directory of the host path.
C18_DescriptorPathsAreFileLocations ==
    Registered =>
        /\ domDisk = diskFile
        /\ domIso = isoFile
        /\ LibvirtdHostPath = "" =>
              /\ diskFile = ResolveStorePath(diskFilename)
              /\ isoFile = ResolveStorePath(isoFilename)
        /\ LibvirtdHostPath # "" =>
              /\ diskFile = persistentDir(LibvirtdHostPath) \o "/" \o diskFilename
              /\ isoFile = persistentDir(LibvirtdHostPath) \o "/" \o isoFilename

\* The MAC addresses of the interfaces on the private network, and of the
\* others.
MACsOn(ifaces, network) ==
    {ifaces[k].mac : k \in {j \in 1..Len(ifaces) : ifaces[j].network = network}}
MACsOff(ifaces, network) ==
    {ifaces[k].mac : k \in {j \in 1..Len(ifaces) : ifaces[j].network # network}}

\* C20: a registered descriptor has exactly two interfaces, the first on
\* d.Network and the second on the private network, whatever d.Network and
\* the host path; and the MAC that getMAC returns is the MAC of the interface
\* on the private network, not that of the other interface.
C20_PrivateInterfaceIsSecond ==
    domDefined =>
        /\ Len(domIfaces) = 2
        /\ domIfaces[1].network = Network
        /\ domIfaces[2].network = privateNetworkName
        /\ \A e \in [fail : {"none"}, lookup : {TRUE}] :
              LET m == getMAC(World, e)
              IN (~m.panic /\ m.err = Nil) =>
                    /\ m.val \in MACsOn(domIfaces, privateNetworkName)
                    /\ m.val \notin MACsOff(domIfaces, privateNetworkName)

\* A Create on another public network whose Start resolved the address.
C20_Witness ==
    /\ op = "Create" /\ pc = "returned" /\ result = Nil
    /\ Network = "bridge0"
    /\ domDefined
    /\ retVal # ""

\* The GetIP in progress has fetched the live descriptor of the domain.
DescriptorRead ==
    /\ op = "GetIP" /\ pc \in {"returned", "crashed"}
    /\ Has(calls, "VM.GetXMLDesc")
    /\ ~(pc = "crashed" /\ calls[Len(calls)] = "VM.GetXMLDesc")
    /\ result # CallErr("VM.GetXMLDesc")

\* C21: getMAC on a live descriptor of fewer than two interfaces returns the
\* not-enough-interfaces error, and on any other the MAC address of the second
\* interface; a GetIP that fetched a descriptor of fewer than two interfaces
\* returns that error and no address without reading the lease file or asking
\* the hypervisor for leases, and any other goes on to the lease file.
C21_FewerThanTwoInterfaces ==
    /\ (domDefined /\ vmLoaded /\ VM = DomHandle) =>
          \A e \in [fail : {"none"}, lookup : {TRUE}] :
             LET m == getMAC(World, e)
             IN IF Len(domIfaces) < 2
                THEN m.err = ErrInterfaces /\ m.val = ""
                ELSE m.err = Nil /\ m.val = domIfaces[2].mac
    /\ DescriptorRead =>
          IF Len(domIfaces) < 2
          THEN /\ pc = "returned" /\ result = ErrInterfaces /\ retVal = ""
               /\ ~Has(calls, "ReadFile")
               /\ ~LiveQueried
          ELSE Has(calls, "ReadFile") /\ result # ErrInterfaces

\* GetIP on a domain with one interface.
C21_Witness ==
    /\ DescriptorRead
    /\ Len(domIfaces) = 1
    /\ result = ErrInterfaces

\* The calls of libvirt.NewConnect that the step makes: those of the log of
\* the operation it starts, or those it adds to the log of the one in progress.
NewConnects ==
    Count(calls', "NewConnect")
      - (IF pc \in {"StopPoll", "StartPoll"} THEN Count(calls, "NewConnect") ELSE 0)

\* NewConnect is the last call of the log: nothing follows it but the entry of
\* Stop returning the connection error to Restart.
ConnectIsLastCall ==
    \E k \in 1..Len(calls) :
        /\ calls[k] = "NewConnect"
        /\ \A m \in (k + 1)..Len(calls) : calls[m] = StopReturned(ErrConnect)

\* C22: an operation calls NewConnect at most once; when that call fails the
\* operation returns the connection error at once and no session is cached,
\* and when it succeeds the session is cached; while the driver has a session
\* no step calls NewConnect, and the session stays until a new driver replaces
\* this one: a driver instance opens at most one session.
C22_SingleSession ==
    /\ [](/\ Count(calls, "NewConnect") <= 1
          /\ result = ErrConnect =>
                (~conn /\ pc = "returned" /\ ConnectIsLastCall)
          /\ (Has(calls, "NewConnect") /\ result # ErrConnect) => conn)
    /\ [][ conn => (/\ NewConnects <= 0
                    /\ conn' \/ op' = "NewDriver") ]_vars

\* An operation on a driver that had a session looked the domain up through
\* it, opening none.
C22_Witness ==
    /\ pc = "returned" /\ conn
    /\ Has(calls, "LookupDomainByName")
    /\ ~Has(calls, "NewConnect")

\* The Domain State of every native state code.
StateOf ==
    [s \in NativeStates |->
        IF s = "DOMAIN_RUNNING" THEN "Running"
        ELSE IF s = "DOMAIN_PAUSED" THEN "Paused"
        ELSE IF s \in {"DOMAIN_SHUTDOWN", "DOMAIN_SHUTOFF"} THEN "Stopped"
        ELSE IF s \in {"DOMAIN_BLOCKED", "DOMAIN_CRASHED"} THEN "Error"
        ELSE IF s = "DOMAIN_PMSUSPENDED" THEN "Saved"
        ELSE "None"]

\* C23: a GetState whose VM.GetState succeeded returns nil and the Domain
\* State of the native code the hypervisor holds, the same for the same code;
\* and no GetState changes the hypervisor's record of the domain.
C23_GetStateMapsNativeCode ==
    /\ []( ( /\ op = "GetState" /\ pc = "returned"
             /\ Has(calls, "VM.GetState")
             /\ result # CallErr("VM.GetState") )
           => (result = Nil /\ retVal = StateOf[domState]) )
    /\ [][ op' = "GetState" =>
              /\ domState' = domState
              /\ domDefined' = domDefined
              /\ domIfaces' = domIfaces ]_vars

\* GetState on a crashed domain returned Error.
C23_Witness ==
    /\ op = "GetState" /\ pc = "returned" /\ result = Nil
    /\ domState = "DOMAIN_CRASHED"
    /\ retVal = "Error"
====
